---- MODULE Spec2Model ----
(***************************************************************************)
(* protobuf2pydantic/biz.py: translation of protobuf message descriptors   *)
(* into pydantic model source text.  The recursion                         *)
(*   pb2_to_pydantic -> msg2pydantic -> convert_field -> msg2pydantic ...  *)
(* is modelled with an explicit call stack of msg2pydantic frames; a frame *)
(* whose callee is running is inside convert_field for its field number i. *)
(* A text is the sequence of its lines (text.split(linesep)); "" is <<"">>.*)
(***************************************************************************)
EXTENDS Integers, Sequences, FiniteSets, TLC

VARIABLES schema, pc, class_names, pydantic_models, k, stack, output, last, emissions

vars == <<schema, pc, class_names, pydantic_models, k, stack, output, last, emissions>>

(* ------------------------------ bounds --------------------------------- *)

\* deepest nesting of msg2pydantic frames before the interpreter gives up
\* (RecursionError); stands for sys.getrecursionlimit()
MaxLevel == 6
\* most fields of the generated message A
MaxFields == 2
\* largest declared number of an enum member
MaxNumber == 2

(* ------------------------------- text ---------------------------------- *)

TAB == "    "

\* the text made of n line separators: n+1 empty lines
RECURSIVE Seps(_)
Seps(n) == IF n = 0 THEN <<"">> ELSE <<"">> \o Seps(n - 1)

linesep == Seps(1)
ONE_LINE == Seps(2)
TWO_LINES == Seps(3)

\* s * n
RECURSIVE Rep(_, _)
Rep(s, n) == IF n <= 0 THEN "" ELSE s \o Rep(s, n - 1)

\* a + b on texts: the last line of a runs on into the first line of b
Cat(a, b) ==
    SubSeq(a, 1, Len(a) - 1) \o <<a[Len(a)] \o b[1]>> \o SubSeq(b, 2, Len(b))

\* sep.join(texts)
RECURSIVE Join(_, _)
Join(sep, texts) ==
    IF Len(texts) = 0 THEN <<"">>
    ELSE IF Len(texts) = 1 THEN texts[1]
    ELSE Cat(Cat(texts[1], sep), Join(sep, Tail(texts)))

\* s.endswith(suffix)
EndsWith(s, suffix) ==
    /\ Len(s) >= Len(suffix)
    /\ SubSeq(s, Len(s) - Len(suffix) + 1, Len(s)) = suffix

\* s.startswith(prefix)
StartsWith(s, prefix) ==
    /\ Len(s) >= Len(prefix)
    /\ SubSeq(s, 1, Len(prefix)) = prefix

(* --------------------------- type mapping ------------------------------ *)

FloatTypes == {"TYPE_DOUBLE", "TYPE_FLOAT", "TYPE_FIXED64", "TYPE_FIXED32",
               "TYPE_SFIXED32", "TYPE_SFIXED64"}
IntTypes == {"TYPE_INT64", "TYPE_UINT64", "TYPE_INT32", "TYPE_UINT32",
             "TYPE_SINT32", "TYPE_SINT64"}

TYPE_MAPPING ==
    [t \in FloatTypes \cup IntTypes \cup {"TYPE_BOOL", "TYPE_STRING", "TYPE_BYTES"} |->
        IF t \in FloatTypes THEN "float"
        ELSE IF t \in IntTypes THEN "int"
        ELSE IF t = "TYPE_BOOL" THEN "bool"
        ELSE "str"]

\* TYPE_MAPPING[field.type] raises KeyError
LookupFails(field) == field.type \notin DOMAIN TYPE_MAPPING

get_python_type(field) == TYPE_MAPPING[field.type]

(* ------------------------------ schemas -------------------------------- *)

Labels == {"LABEL_OPTIONAL", "LABEL_REQUIRED", "LABEL_REPEATED"}

NoEnum == [name |-> "", values |-> <<>>]

Scalar(n, t, l) ==
    [name |-> n, type |-> t, label |-> l, message_type |-> "", enum_type |-> NoEnum]
EnumField(n, e, l) ==
    [name |-> n, type |-> "TYPE_ENUM", label |-> l, message_type |-> "", enum_type |-> e]
MsgField(n, m, l) ==
    [name |-> n, type |-> "TYPE_MESSAGE", label |-> l, message_type |-> m,
     enum_type |-> NoEnum]

\* enum Status with two members numbered n1, n2 (index 0 and 1)
Status(n1, n2) ==
    [name |-> "Status",
     values |-> << [name |-> "PENDING", index |-> 0, number |-> n1],
                   [name |-> "DONE", index |-> 1, number |-> n2] >>]

\* full names of the messages of the descriptor pool; A and B are declared at
\* top level, the others inside A; Struct is the well-known type
GeneralIds == {"A", "B", "A.N", "A.B"}
MsgIds == GeneralIds \cup {"A.TagsEntry", "A.KindEntry", "A.LogEntry", "Struct"}

BareName ==
    [m \in MsgIds |->
        CASE m = "A" -> "A"
          [] m = "B" -> "B"
          [] m = "A.N" -> "N"
          [] m = "A.B" -> "B"
          [] m = "A.TagsEntry" -> "TagsEntry"
          [] m = "A.KindEntry" -> "KindEntry"
          [] m = "A.LogEntry" -> "LogEntry"
          [] OTHER -> "Struct"]

\* fields of the messages that are the same in every schema
FixedFields(m) ==
    CASE m = "A.TagsEntry" ->
            << Scalar("key", "TYPE_STRING", "LABEL_OPTIONAL"),
               Scalar("value", "TYPE_INT32", "LABEL_OPTIONAL") >>
      [] m = "A.KindEntry" ->
            << Scalar("key", "TYPE_STRING", "LABEL_OPTIONAL"),
               EnumField("value", Status(0, 1), "LABEL_OPTIONAL") >>
      [] m = "A.LogEntry" ->
            << Scalar("key", "TYPE_STRING", "LABEL_OPTIONAL"),
               Scalar("value", "TYPE_STRING", "LABEL_OPTIONAL"),
               Scalar("stamp", "TYPE_INT64", "LABEL_OPTIONAL") >>
      [] m = "Struct" -> << MsgField("fields", "Struct", "LABEL_REPEATED") >>
      [] OTHER -> << Scalar("id", "TYPE_INT64", "LABEL_REQUIRED") >>

FieldName(i) == "f" \o ToString(i)

\* what a generated field of A may be: (kind, argument, label); the kinds that
\* make convert_field raise do so before the label is read
FieldChoices ==
    ({"scalar"} \X {"TYPE_STRING"} \X Labels)
    \cup ({"enum"} \X {"Status"} \X Labels)
    \cup ({"message"} \X {"A.N", "A.TagsEntry", "Struct"} \X Labels)
    \cup ({"scalar"} \X {"TYPE_GROUP"} \X {"LABEL_OPTIONAL"})
    \cup ({"message"} \X {"A.KindEntry", "A.LogEntry"} \X {"LABEL_OPTIONAL"})

MakeField(i, c) ==
    CASE c[1] = "scalar" -> Scalar(FieldName(i), c[2], c[3])
      [] c[1] = "enum" -> EnumField(FieldName(i), Status(0, 1), c[3])
      [] OTHER -> MsgField(FieldName(i), c[2], c[3])

SeqsUpTo(S, n) == UNION {[1..j -> S] : j \in 0..n}

Pool(fieldsOf) == [m \in MsgIds |-> [name |-> BareName[m], fields |-> fieldsOf[m]]]

\* family K: A has up to MaxFields fields of any kind and label
KindSchemas ==
    { [descriptors |-> <<"A", "B">>,
       pool |-> Pool([m \in MsgIds |->
                        IF m = "A" THEN [i \in DOMAIN cs |-> MakeField(i, cs[i])]
                        ELSE FixedFields(m)])] :
      cs \in SeqsUpTo(FieldChoices, MaxFields) \ {<<>>} }

\* family E: A has one enum field whose members carry any two distinct numbers
EnumSchemas ==
    { [descriptors |-> <<"A", "B">>,
       pool |-> Pool([m \in MsgIds |->
                        IF m = "A" THEN << EnumField("status", Status(p[1], p[2]), p[3]) >>
                        ELSE FixedFields(m)])] :
      p \in {q \in (0..MaxNumber) \X (0..MaxNumber) \X Labels : q[1] # q[2]} }

Refs(targets) == [i \in DOMAIN targets |-> MsgField(FieldName(i), targets[i], "LABEL_OPTIONAL")]

\* family G: A, B and A.N reference the general messages in any way; B is either
\* a top-level message of the module or a message imported from another file
GraphSchemas ==
    { [descriptors |-> d,
       pool |-> Pool([m \in MsgIds |->
                        IF m = "A" THEN Refs(g[1])
                        ELSE IF m = "B" THEN Refs(g[2])
                        ELSE IF m = "A.N" THEN Refs(g[3])
                        ELSE FixedFields(m)])] :
      d \in {<<"A">>, <<"A", "B">>},
      g \in SeqsUpTo(GeneralIds, MaxFields) \X SeqsUpTo(GeneralIds, 1)
            \X SeqsUpTo(GeneralIds, 1) }

Schemas == KindSchemas \cup EnumSchemas \cup GraphSchemas

(* ---------------------------- convert_field ----------------------------- *)

message_type(field) == schema.pool[field.message_type]

\* which arm of the if/elif chain of convert_field a field takes
Branch(field) ==
    IF field.type = "TYPE_ENUM" THEN "enum"
    ELSE IF field.type = "TYPE_MESSAGE" THEN
        IF EndsWith(message_type(field).name, "Entry") THEN "map"
        ELSE IF message_type(field).name = "Struct" THEN "struct"
        ELSE "message"
    ELSE "scalar"

\* the exception convert_field raises before any recursive call, "" for none:
\* the unpacking key, value = fields needs exactly two fields, and
\* get_python_type needs the wire type to be a key of TYPE_MAPPING
Raises(field) ==
    IF Branch(field) = "map" THEN
        IF Len(message_type(field).fields) # 2 THEN "ValueError"
        ELSE IF \E j \in 1..2 : LookupFails(message_type(field).fields[j]) THEN "KeyError"
        ELSE ""
    ELSE IF Branch(field) = "scalar" /\ LookupFails(field) THEN "KeyError"
    ELSE ""

\* the text of one enum member line
EnumMember(value, level) ==
    Rep(TAB, level + 1) \o value.name \o " = " \o ToString(value.index)

\* extra of the enum arm: the class statement and one line per member
EnumExtra(field, level) ==
    << Rep(TAB, level) \o "class " \o field.enum_type.name \o "(IntEnum):" >>
    \o [j \in DOMAIN field.enum_type.values |-> EnumMember(field.enum_type.values[j], level)]

\* type_statement before the label is looked at
ElementType(field) ==
    CASE Branch(field) = "enum" -> field.enum_type.name
      [] Branch(field) = "map" ->
            "Dict[" \o get_python_type(message_type(field).fields[1]) \o ", "
                    \o get_python_type(message_type(field).fields[2]) \o "]"
      [] Branch(field) = "struct" -> "Dict[str, Any]"
      [] Branch(field) = "message" -> message_type(field).name
      [] OTHER -> get_python_type(field)

\* factory before the label is looked at
ElementFactory(field) ==
    CASE Branch(field) = "enum" -> "int"
      [] Branch(field) = "map" -> "dict"
      [] Branch(field) = "struct" -> "dict"
      [] Branch(field) = "message" -> message_type(field).name
      [] OTHER -> get_python_type(field)

type_statement(field) ==
    IF field.label = "LABEL_REPEATED" THEN "List[" \o ElementType(field) \o "]"
    ELSE ElementType(field)

\* factory with the repeated label leaving a mapping's factory alone
factory_KeepsDict(field) ==
    IF field.label = "LABEL_REPEATED" /\ ElementFactory(field) # "dict" THEN "list"
    ELSE ElementFactory(field)

factory(field) ==
    IF field.label = "LABEL_REPEATED" THEN "list" ELSE ElementFactory(field)

default_statement(field) ==
    IF field.label = "LABEL_REQUIRED" THEN ""
    ELSE " = Field(default_factory=" \o factory(field) \o ")"

\* level is the callee's level, the caller's plus one
field_statement(field, level) ==
    Rep(TAB, level) \o field.name \o ": " \o type_statement(field) \o default_statement(field)

\* the test that guards the recursive call of msg2pydantic
NeedsCall(field, names) == message_type(field).name \notin names

\* extra = None
None == <<>>

\* what convert_field returns; extra is None, "" or a definition
ConvertFieldReturn(extra, statement) ==
    IF extra = None \/ extra = <<"">> THEN <<statement>>
    ELSE Cat(Cat(Cat(linesep, extra), ONE_LINE), <<statement>>)

(* ----------------------------- msg2pydantic ---------------------------- *)

prefixed_class_name(class_name_prefix, msg) == class_name_prefix \o msg.name

\* the early return without the emitted-set check
SkipsEmission_NoCheck(prefixed, names, skip_name_check) == FALSE

\* the early return with the bypass flag ignored
SkipsEmission_NoBypass(prefixed, names, skip_name_check) == prefixed \in names

\* the early return of msg2pydantic
SkipsEmission(prefixed, names, skip_name_check) ==
    prefixed \in names /\ ~skip_name_check

class_statement(level, msg) ==
    Rep(TAB, level) \o "class " \o msg.name \o "(BaseModel):"

\* the class_name_prefix handed to convert_field
ChildPrefix(prefixed) == prefixed \o "-"

Msg2PydanticReturn(level, msg, field_statements) ==
    Join(linesep, << <<class_statement(level, msg)>> >> \o field_statements)

(* ------------------------------ the state ------------------------------ *)

NoCall ==
    [valid |-> FALSE, owner |-> "", index |-> 0, field |-> Scalar("", "", ""),
     level |-> 0, prefix |-> "", before |-> {}, after |-> {}, extra |-> None, result |-> None]

\* entry_names[j] is class_names as convert_field found it for field j
Frame(level, m, prefixed) ==
    [level |-> level, msg |-> m, prefixed |-> prefixed, i |-> 1,
     field_statements |-> <<>>, entry_names |-> <<>>]

Top == stack[Len(stack)]
FieldsOf(frame) == schema.pool[frame.msg].fields
CurrentField(frame) == FieldsOf(frame)[frame.i]

\* the frame after convert_field has returned for its field i
Advance(frame, extra) ==
    [frame EXCEPT !.i = @ + 1,
                  !.field_statements =
                      Append(@, ConvertFieldReturn(extra,
                                    field_statement(CurrentField(frame), frame.level + 1)))]

\* the record of the call of convert_field that has just returned
Completed(frame, before, after, extra) ==
    [valid |-> TRUE, owner |-> frame.msg, index |-> frame.i, field |-> CurrentField(frame),
     level |-> frame.level + 1, prefix |-> ChildPrefix(frame.prefixed), before |-> before, after |-> after, extra |-> extra,
     result |-> ConvertFieldReturn(extra,
                    field_statement(CurrentField(frame), frame.level + 1))]

Init ==
    /\ schema \in Schemas
    /\ pc = "start"
    /\ class_names = {}
    /\ pydantic_models = <<>>
    /\ k = 1
    /\ stack = <<>>
    /\ output = None
    /\ last = NoCall
    /\ emissions = <<>>

\* pb2_to_pydantic up to the list of models: the names of the module's own
\* messages are recorded before anything is generated
Begin ==
    /\ pc = "start"
    /\ pc' = "loop"
    /\ class_names' = class_names
            \cup {schema.pool[schema.descriptors[j]].name : j \in DOMAIN schema.descriptors}
    /\ UNCHANGED <<schema, pydantic_models, k, stack, output, last, emissions>>

\* msg2pydantic(0, descriptor, class_names, skip_name_check=True)
DriverCall ==
    /\ pc = "loop" /\ stack = <<>> /\ k <= Len(schema.descriptors)
    /\ LET m == schema.descriptors[k]
           prefixed == prefixed_class_name("", schema.pool[m])
       IN IF SkipsEmission(prefixed, class_names, TRUE)
          THEN /\ pydantic_models' = Append(pydantic_models, <<"">>)
               /\ k' = k + 1
               /\ UNCHANGED <<class_names, stack, emissions>>
          ELSE /\ class_names' = class_names \cup {prefixed}
               /\ stack' = << Frame(0, m, prefixed) >>
               /\ emissions' = Append(emissions, [msg |-> m, identity |-> prefixed, level |-> 0])
               /\ UNCHANGED <<pydantic_models, k>>
    /\ UNCHANGED <<schema, pc, output, last>>

InField == pc = "loop" /\ stack # <<>> /\ Top.i <= Len(FieldsOf(Top))

\* convert_field raises: the whole generation call fails
ConvertFieldRaise ==
    /\ InField
    /\ Raises(CurrentField(Top)) # ""
    /\ pc' = Raises(CurrentField(Top))
    /\ UNCHANGED <<schema, class_names, pydantic_models, k, stack, output, last, emissions>>

\* convert_field for a field that needs no definition of a message: enum, map,
\* Struct, scalar, or a message whose name or identity is already recorded
ConvertFieldPlain ==
    /\ InField
    /\ Raises(CurrentField(Top)) = ""
    /\ LET field == CurrentField(Top)
           called == Branch(field) = "message" /\ NeedsCall(field, class_names)
           prefixed == prefixed_class_name(ChildPrefix(Top.prefixed), message_type(field))
           extra == IF Branch(field) = "enum" THEN EnumExtra(field, Top.level + 1)
                    ELSE IF called THEN <<"">>
                    ELSE None
       IN /\ called => SkipsEmission(prefixed, class_names, FALSE)
          /\ stack' = [stack EXCEPT ![Len(stack)] =
                            Advance([Top EXCEPT !.entry_names = Append(@, class_names)], extra)]
          /\ last' = Completed(Top, class_names, class_names, extra)
    /\ UNCHANGED <<schema, pc, class_names, pydantic_models, k, output, emissions>>

\* convert_field calls msg2pydantic, which records the identity and starts on
\* the fields of the referenced message
ConvertFieldRecurse ==
    /\ InField
    /\ Raises(CurrentField(Top)) = ""
    /\ LET field == CurrentField(Top)
           prefixed == prefixed_class_name(ChildPrefix(Top.prefixed), message_type(field))
       IN /\ Branch(field) = "message" /\ NeedsCall(field, class_names)
          /\ ~SkipsEmission(prefixed, class_names, FALSE)
          /\ Len(stack) < MaxLevel
          /\ class_names' = class_names \cup {prefixed}
          /\ stack' = Append([stack EXCEPT ![Len(stack)].entry_names = Append(@, class_names)],
                             Frame(Top.level + 1, field.message_type, prefixed))
          /\ emissions' = Append(emissions, [msg |-> field.message_type,
                                             identity |-> prefixed, level |-> Top.level + 1])
    /\ UNCHANGED <<schema, pc, pydantic_models, k, output, last>>

\* the same call with the interpreter's stack exhausted
StackOverflow ==
    /\ InField
    /\ Raises(CurrentField(Top)) = ""
    /\ LET field == CurrentField(Top)
           prefixed == prefixed_class_name(ChildPrefix(Top.prefixed), message_type(field))
       IN /\ Branch(field) = "message" /\ NeedsCall(field, class_names)
          /\ ~SkipsEmission(prefixed, class_names, FALSE)
          /\ Len(stack) >= MaxLevel
    /\ pc' = "RecursionError"
    /\ UNCHANGED <<schema, class_names, pydantic_models, k, stack, output, last, emissions>>

AtEnd == pc = "loop" /\ stack # <<>> /\ Top.i > Len(FieldsOf(Top))

\* msg2pydantic returns to convert_field, which returns to the caller's loop
ReturnToConvertField ==
    /\ AtEnd /\ Len(stack) > 1
    /\ LET caller == stack[Len(stack) - 1]
           extra == Msg2PydanticReturn(Top.level, schema.pool[Top.msg], Top.field_statements)
       IN /\ stack' = [SubSeq(stack, 1, Len(stack) - 1) EXCEPT
                           ![Len(stack) - 1] = Advance(caller, extra)]
          /\ last' = Completed(caller, caller.entry_names[caller.i], class_names, extra)
    /\ UNCHANGED <<schema, pc, class_names, pydantic_models, k, output, emissions>>

\* msg2pydantic returns to pb2_to_pydantic
ReturnToDriver ==
    /\ AtEnd /\ Len(stack) = 1
    /\ pydantic_models' = Append(pydantic_models,
            Msg2PydanticReturn(Top.level, schema.pool[Top.msg], Top.field_statements))
    /\ k' = k + 1
    /\ stack' = <<>>
    /\ UNCHANGED <<schema, pc, class_names, output, last, emissions>>

header ==
    << "from typing import List, Dict, Any", "from enum import IntEnum", "",
       "from pydantic import BaseModel, Field", "", "", "" >>

NonEmpty(models) == SelectSeq(models, LAMBDA m : m # <<"">>)

\* the end of pb2_to_pydantic
Finish ==
    /\ pc = "loop" /\ stack = <<>> /\ k > Len(schema.descriptors)
    /\ output' = Cat(header, Join(TWO_LINES, NonEmpty(pydantic_models)))
    /\ pc' = "done"
    /\ UNCHANGED <<schema, class_names, pydantic_models, k, stack, last, emissions>>

Next ==
    \/ Begin
    \/ DriverCall
    \/ ConvertFieldRaise
    \/ ConvertFieldPlain
    \/ ConvertFieldRecurse
    \/ StackOverflow
    \/ ReturnToConvertField
    \/ ReturnToDriver
    \/ Finish

Spec == Init /\ [][Next]_vars

(* ------------------------- reading the results ------------------------- *)

TopLevelNames ==
    {schema.pool[schema.descriptors[j]].name : j \in DOMAIN schema.descriptors}

\* the fields that take the general nested-message arm
IsGeneral(field) == Branch(field) = "message"

\* the messages the general message fields of the messages of S reference
GeneralTargets(S) ==
    {t \in MsgIds : \E m \in S : \E j \in DOMAIN schema.pool[m].fields :
        /\ IsGeneral(schema.pool[m].fields[j])
        /\ schema.pool[m].fields[j].message_type = t}

RECURSIVE Closure(_)
Closure(S) ==
    IF GeneralTargets(S) \subseteq S THEN S ELSE Closure(S \cup GeneralTargets(S))

\* the general messages reachable from the module's top-level messages
Reachable == Closure({schema.descriptors[j] : j \in DOMAIN schema.descriptors})

\* how many class definitions were generated for message m
TimesEmitted(m) == Cardinality({j \in DOMAIN emissions : emissions[j].msg = m})

\* a returned block of convert_field carries an inline class definition of msg
HasInline(block, level, msg) ==
    Len(block) > 1 /\ block[2] = class_statement(level, msg)

\* the lines of a text that open a class at depth 0
TopLevelClassLines(text) == SelectSeq(text, LAMBDA line : StartsWith(line, "class "))

\* field j of the frame is the first field of its message that references
\* the message field j references
FirstReference(frame, j) ==
    \A h \in 1..(j - 1) :
        ~(IsGeneral(FieldsOf(frame)[h])
          /\ FieldsOf(frame)[h].message_type = FieldsOf(frame)[j].message_type)

\* fields h < j of the frame are translated, both reference the same general
\* message, and h is the first field that does
SiblingReferences(frame, h, j) ==
    /\ h < j /\ j < frame.i
    /\ IsGeneral(FieldsOf(frame)[h]) /\ IsGeneral(FieldsOf(frame)[j])
    /\ FieldsOf(frame)[h].message_type = FieldsOf(frame)[j].message_type
    /\ FirstReference(frame, h)

FrameSiblings ==
    {t \in (DOMAIN stack) \X (1..MaxFields) \X (1..MaxFields) :
        SiblingReferences(stack[t[1]], t[2], t[3])}

(* ------------------------------- claims -------------------------------- *)

\* C1: a generation run terminates for every finite collection of schemas: the
\* emitted-set check cuts every chain convert_field -> msg2pydantic ->
\* convert_field, so the nesting of calls never exhausts the interpreter's stack.
C1_RunTerminates == pc # "RecursionError"

\* C2: over a whole run every general message reachable from the top-level
\* messages has its class definition generated exactly once.
C2_EmittedExactlyOnce ==
    pc = "done" => \A m \in Reachable : TimesEmitted(m) = 1

C4_EveryTopLevelEmitted ==
    /\ \A j \in DOMAIN pydantic_models :
          /\ pydantic_models[j] # <<"">>
          /\ pydantic_models[j][1] = "class " \o schema.pool[schema.descriptors[j]].name
                                              \o "(BaseModel):"
          /\ TopLevelClassLines(pydantic_models[j]) = <<pydantic_models[j][1]>>
    /\ pc = "done" =>
          TopLevelClassLines(output) =
              [j \in DOMAIN schema.descriptors |->
                  "class " \o schema.pool[schema.descriptors[j]].name \o "(BaseModel):"]

\* C4 witness: a finished run of two top-level messages where the second was
\* referenced by a field of the first before the driver reached it
C4_Witness ==
    /\ pc = "done" /\ Len(schema.descriptors) = 2 /\ Len(pydantic_models) = 2
    /\ \E j \in DOMAIN schema.pool["A"].fields :
          schema.pool["A"].fields[j].message_type = "B"

\* C5: every field that references a map entry (name ending in Entry, two scalar
\* fields) yields the line name: Dict[K, V] = Field(default_factory=dict), no
\* nested class and nothing new in the emitted-set.
C5_MapFieldLine ==
    (last.valid /\ Branch(last.field) = "map") =>
        /\ last.result =
             << Rep(TAB, last.level) \o last.field.name \o ": Dict["
                \o TYPE_MAPPING[message_type(last.field).fields[1].type] \o ", "
                \o TYPE_MAPPING[message_type(last.field).fields[2].type]
                \o "] = Field(default_factory=dict)" >>
        /\ last.after = last.before

\* C6: for every repeated field, of whatever element kind, the type is the
\* element type wrapped in List[...] and the default is default_factory=list.
C6_RepeatedIsList ==
    (last.valid /\ last.field.label = "LABEL_REPEATED") =>
        last.result[Len(last.result)] =
            Rep(TAB, last.level) \o last.field.name \o ": List[" \o ElementType(last.field)
            \o "] = Field(default_factory=list)"

\* C6 witness: a repeated field of a map entry type has been translated
C6_Witness ==
    last.valid /\ last.field.label = "LABEL_REPEATED" /\ Branch(last.field) = "map"

\* C7: the inline enum definition has one line per member, in declaration
\* order, each the member's name followed by its declared number.
C7_EnumMemberNumbers ==
    (last.valid /\ Branch(last.field) = "enum") =>
        /\ Len(last.extra) = 1 + Len(last.field.enum_type.values)
        /\ \A j \in DOMAIN last.field.enum_type.values :
              last.extra[j + 1] =
                  Rep(TAB, last.level + 1) \o last.field.enum_type.values[j].name \o " = "
                  \o ToString(last.field.enum_type.values[j].number)

\* C8: the inline decision for a general message field depends on the qualified
\* identity only; in particular a nested message whose bare name is that of a
\* different recorded message, while its own identity is not recorded, is emitted
\* inline under its parent.
C8_NamesakeStillInlined ==
    (/\ last.valid /\ IsGeneral(last.field)
     /\ message_type(last.field).name \in last.before
     /\ prefixed_class_name(last.prefix, message_type(last.field)) \notin last.before
     /\ last.field.message_type \notin
            {schema.descriptors[j] : j \in DOMAIN schema.descriptors})
        => HasInline(last.result, last.level, message_type(last.field))

\* C9: a referenced message named ...Entry without exactly two fields is no
\* error: the field is treated as a general nested message and the run goes on.
C9_MalformedEntryIsNoError == pc # "ValueError"

\* C10: the only failure of convert_field is the type mapper's lookup failure
\* for a plain scalar field; in particular a map field whose key or value is an
\* enum or a message does not make it fail.
C10_LookupFailsOnlyForScalar ==
    pc = "KeyError" => Branch(CurrentField(Top)) = "scalar"

====
